---- MODULE Spec2Model ----
(***************************************************************************)
(* A model of the selection-bias meme pipeline:                            *)
(*   step5_create_masked.py        create_masked_stipple                   *)
(*   create_meme.py                create_statistics_meme                  *)
(*   step4_create_block_letter.py  create_block_letter_s                   *)
(*                                                                         *)
(* numpy arrays are objects on a heap: a call receives references, and a   *)
(* copy allocates a new object.  A 2D array is a record                    *)
(*   [shape |-> <<height, width>>, data |-> row-major sequence of pixels]. *)
(* A float pixel of the masker is the integer k standing for k / Levels,   *)
(* so 0 is 0.0 (black) and Levels is 1.0 (white).                          *)
(***************************************************************************)
EXTENDS Integers, Sequences, FiniteSets, TLC

\* ------------------------------------------------------------------ bounds

\* Grey levels of the masker's pixels: a pixel is k / Levels.
Levels == 1

\* Largest number of pixels of an array of the masker (height * width).
MaxPixels == 2

\* Largest number of arrays on the heap (two inputs, then one per result).
MaxArrays == 4

\* The composer's images have sides Side .. Side + SideSpan.
Side == 50
SideSpan == 1

\* Largest stroke_width passed to create_block_letter_s.
MaxStroke == 1

\* ------------------------------------------------------------------ state

VARIABLES
    \* create_masked_stipple and its caller
    heap,            \* the numpy arrays, by reference (1 .. Len(heap))
    stipple_img,     \* argument of the last call: a reference
    mask_img,        \* argument of the last call: a reference
    threshold,       \* argument of the last call
    masked_stipple,  \* the reference the last call returned (0: none)
    outcome,         \* "none", "returned", "ValueError", "written"
    error,           \* the shapes the ValueError's message carries
    pre,             \* the heap on entry of the last call
    prev,            \* the call before the last one
    \* create_statistics_meme and pyplot
    images,          \* the four (name, array) arguments, an array by its shape
    img_height,
    img_width,
    i,               \* position of the validation loop in images
    fig,             \* the figure of the call (0: none yet)
    open_figures,    \* the figures pyplot holds open
    panels,          \* columns of the grid drawn so far
    output_file,     \* "absent", "partial", "written"
    meme_error,      \* the exception that ended the call
    pc,              \* where the call stands
    \* create_block_letter_s and its platform
    height,
    width,
    stroke_width,
    system,          \* platform.system()
    available,       \* the font files that load on this machine
    native_stroke,   \* whether draw.text accepts stroke_width
    img,             \* the PIL image
    font_size,
    font_paths,
    k,               \* position of the loading loop in font_paths
    tried,           \* the fonts whose loading was attempted, in order
    font,            \* the font chosen ("None": none yet)
    img_array,       \* the array returned
    lpc              \* where the call stands

maskVars == <<heap, stipple_img, mask_img, threshold, masked_stipple,
              outcome, error, pre, prev>>

memeVars == <<images, img_height, img_width, i, fig, open_figures, panels,
              output_file, meme_error, pc>>

letterVars == <<height, width, stroke_width, system, available, native_stroke,
                img, font_size, font_paths, k, tried, font, img_array, lpc>>

vars == <<maskVars, memeVars, letterVars>>

\* ---------------------------------------------------------- initial values

\* No call of create_masked_stipple yet.
NoCall == [stipple_img |-> 0, mask_img |-> 0, threshold |-> 0,
           masked_stipple |-> 0, outcome |-> "none"]

\* No exception of create_statistics_meme.
NoError == [kind |-> "none", name |-> "", shape |-> <<>>, expected |-> <<>>]

\* No PIL image and no array of create_block_letter_s yet.
NoImage == [size |-> <<0, 0>>, px |-> <<>>]
NoArray == [shape |-> <<0, 0>>, data |-> <<>>]

\* ------------------------------------------------- step5_create_masked.py

\* The float 1.0 (white) of masked_stipple[mask_regions] = 1.0.
One == Levels

Shapes == {s \in (1..MaxPixels) \X (1..MaxPixels) : s[1] * s[2] <= MaxPixels}

StippleValues == 0..Levels
MaskValues == -1..Levels
Thresholds == -1..(Levels + 1)

Arrays(values) ==
    UNION {{[shape |-> s, data |-> d] : d \in [1..(s[1] * s[2]) -> values]}
           : s \in Shapes}

\* stipple_img.copy(): a new array with the same shape and data.
CopyAlias(h, ref) == [heap |-> h, ref |-> ref]
Copy(h, ref) == [heap |-> Append(h, h[ref]), ref |-> Len(h) + 1]

\* stipple_img.shape != mask_img.shape
SizesDiffer(a, b) == Len(a.data) # Len(b.data)
ShapesDiffer(a, b) == a.shape # b.shape

\* mask_img < threshold, elementwise.
MaskRegionsInverted(M, t) == [p \in DOMAIN M.data |-> M.data[p] > t]
MaskRegionsInclusive(M, t) == [p \in DOMAIN M.data |-> M.data[p] <= t]
MaskRegions(M, t) == [p \in DOMAIN M.data |-> M.data[p] < t]

\* What a[regions] = value stores in a selected pixel holding old.
StoreAdd(old, value) == old + value
Store(old, value) == value

\* masked_stipple[mask_regions] = value, in place.
SetItem(h, ref, regions, value) ==
    [h EXCEPT ![ref].data =
        [p \in DOMAIN @ |-> IF regions[p] THEN Store(@[p], value) ELSE @[p]]]

\* The body of create_masked_stipple on heap h: the heap it leaves, the
\* reference it returns (0 when it raises) and the shapes of its ValueError.
MaskedStippleBody(h, s, m, t) ==
    IF ShapesDiffer(h[s], h[m])
        THEN [heap |-> h, ret |-> 0, outcome |-> "ValueError",
              error |-> <<h[s].shape, h[m].shape>>]
        ELSE LET c == Copy(h, s)
                 regions == MaskRegions(c.heap[m], t)
             IN  [heap |-> SetItem(c.heap, c.ref, regions, One),
                  ret |-> c.ref, outcome |-> "returned", error |-> <<>>]

LastCall == [stipple_img |-> stipple_img, mask_img |-> mask_img,
             threshold |-> threshold, masked_stipple |-> masked_stipple,
             outcome |-> outcome]

MaskInit ==
    /\ \E S \in Arrays(StippleValues), M \in Arrays(MaskValues) :
           heap = <<S, M>>
    /\ stipple_img = 0
    /\ mask_img = 0
    /\ threshold = 0
    /\ masked_stipple = 0
    /\ outcome = "none"
    /\ error = <<>>
    /\ pre = <<>>
    /\ prev = NoCall
    \* create_statistics_meme is not called
    /\ images = <<>>
    /\ img_height = 0
    /\ img_width = 0
    /\ i = 0
    /\ fig = 0
    /\ open_figures = {}
    /\ panels = 0
    /\ output_file = "absent"
    /\ meme_error = NoError
    /\ pc = "idle"
    \* create_block_letter_s is not called
    /\ height = 0
    /\ width = 0
    /\ stroke_width = 0
    /\ system = "Linux"
    /\ available = {}
    /\ native_stroke = TRUE
    /\ img = NoImage
    /\ font_size = 0
    /\ font_paths = <<>>
    /\ k = 0
    /\ tried = <<>>
    /\ font = "None"
    /\ img_array = NoArray
    /\ lpc = "idle"

\* A call create_masked_stipple(heap[s], heap[m], t).
create_masked_stipple(s, m, t) ==
    /\ Len(heap) < MaxArrays
    /\ LET r == MaskedStippleBody(heap, s, m, t)
       IN  /\ heap' = r.heap
           /\ masked_stipple' = r.ret
           /\ outcome' = r.outcome
           /\ error' = r.error
    /\ stipple_img' = s
    /\ mask_img' = m
    /\ threshold' = t
    /\ pre' = heap
    /\ prev' = LastCall
    /\ UNCHANGED <<memeVars, letterVars>>

\* The caller's first call, on any two of its arrays (also the same one twice).
Call ==
    /\ outcome = "none"
    /\ \E s \in DOMAIN heap, m \in DOMAIN heap, t \in Thresholds :
           create_masked_stipple(s, m, t)

\* The caller applies the same mask and threshold to the array it was returned.
Reapply ==
    /\ outcome = "returned"
    /\ create_masked_stipple(masked_stipple, mask_img, threshold)

\* The caller later writes a pixel of the array it was returned.
WriteResult ==
    /\ outcome = "returned"
    /\ \E p \in DOMAIN heap[masked_stipple].data, v \in StippleValues :
           /\ v # heap[masked_stipple].data[p]
           /\ heap' = [heap EXCEPT ![masked_stipple].data[p] = v]
    /\ outcome' = "written"
    /\ UNCHANGED <<stipple_img, mask_img, threshold, masked_stipple, error,
                   pre, prev>>
    /\ UNCHANGED <<memeVars, letterVars>>

MaskNext == Call \/ Reapply \/ WriteResult

\* ------------------------------------------------------------ create_meme.py

\* The images list, in argument order.
Names == <<"original_img", "stipple_img", "block_letter_img",
           "masked_stipple_img">>

labels == <<"Reality", "Your Model", "Selection Bias", "Estimate">>

Sides == Side..(Side + SideSpan)
MemeShapes == Sides \X Sides

\* The tuple (img_height, img_width) every img.shape is compared with.
ExpectedShapeTransposed(h, w) == <<w, h>>
ExpectedShape(h, w) == <<h, w>>

\* img.shape != (img_height, img_width)
ShapeDiffersInHeight(shape, h, w) == shape[1] # h
ShapeDiffers(shape, h, w) == shape # ExpectedShape(h, w)

MemeInit ==
    /\ \E shapes \in [DOMAIN Names -> MemeShapes] :
           images = [n \in DOMAIN Names |->
                        [name |-> Names[n], shape |-> shapes[n]]]
    /\ img_height = 0
    /\ img_width = 0
    /\ i = 0
    /\ fig = 0
    /\ open_figures = {}
    /\ panels = 0
    /\ output_file = "absent"
    /\ meme_error = NoError
    /\ pc = "unpack"
    \* create_masked_stipple is not called
    /\ heap = <<>>
    /\ stipple_img = 0
    /\ mask_img = 0
    /\ threshold = 0
    /\ masked_stipple = 0
    /\ outcome = "none"
    /\ error = <<>>
    /\ pre = <<>>
    /\ prev = NoCall
    \* create_block_letter_s is not called
    /\ height = 0
    /\ width = 0
    /\ stroke_width = 0
    /\ system = "Linux"
    /\ available = {}
    /\ native_stroke = TRUE
    /\ img = NoImage
    /\ font_size = 0
    /\ font_paths = <<>>
    /\ k = 0
    /\ tried = <<>>
    /\ font = "None"
    /\ img_array = NoArray
    /\ lpc = "idle"

\* img_height, img_width = original_img.shape
Unpack ==
    /\ pc = "unpack"
    /\ img_height' = images[1].shape[1]
    /\ img_width' = images[1].shape[2]
    /\ i' = 1
    /\ pc' = "validate"
    /\ UNCHANGED <<images, fig, open_figures, panels, output_file, meme_error>>
    /\ UNCHANGED <<maskVars, letterVars>>

\* One pass of "for name, img in images" whose image has the expected shape.
ValidatePass ==
    /\ pc = "validate"
    /\ i <= Len(images)
    /\ ~ShapeDiffers(images[i].shape, img_height, img_width)
    /\ i' = i + 1
    /\ pc' = IF i = Len(images) THEN "figure" ELSE "validate"
    /\ UNCHANGED <<images, img_height, img_width, fig, open_figures, panels,
                   output_file, meme_error>>
    /\ UNCHANGED <<maskVars, letterVars>>

\* The pass that raises ValueError: name, img.shape and the expected shape.
ValidateRaise ==
    /\ pc = "validate"
    /\ i <= Len(images)
    /\ ShapeDiffers(images[i].shape, img_height, img_width)
    /\ meme_error' = [kind |-> "ValueError", name |-> images[i].name,
                      shape |-> images[i].shape,
                      expected |-> <<img_height, img_width>>]
    /\ pc' = "raised"
    /\ UNCHANGED <<images, img_height, img_width, i, fig, open_figures,
                   panels, output_file>>
    /\ UNCHANGED <<maskVars, letterVars>>

\* fig = plt.figure(...): pyplot registers the new figure as the current one.
CreateFigure ==
    /\ pc = "figure"
    /\ fig' = Cardinality(open_figures) + 1
    /\ open_figures' = open_figures \cup {fig'}
    /\ pc' = "panels"
    /\ UNCHANGED <<images, img_height, img_width, i, panels, output_file,
                   meme_error>>
    /\ UNCHANGED <<maskVars, letterVars>>

\* One pass of the panel loop: the image panel and its label panel.
DrawPanel ==
    /\ pc = "panels"
    /\ panels < Len(labels)
    /\ panels' = panels + 1
    /\ UNCHANGED <<images, img_height, img_width, i, fig, open_figures,
                   output_file, meme_error, pc>>
    /\ UNCHANGED <<maskVars, letterVars>>

\* fig.patch.set_edgecolor / set_linewidth, after the last panel.
FigureBorder ==
    /\ pc = "panels"
    /\ panels = Len(labels)
    /\ pc' = "savefig"
    /\ UNCHANGED <<images, img_height, img_width, i, fig, open_figures,
                   panels, output_file, meme_error>>
    /\ UNCHANGED <<maskVars, letterVars>>

\* plt.savefig(output_path, ...) writes the file.
SaveFig ==
    /\ pc = "savefig"
    /\ output_file' = "written"
    /\ pc' = "close"
    /\ UNCHANGED <<images, img_height, img_width, i, fig, open_figures,
                   panels, meme_error>>
    /\ UNCHANGED <<maskVars, letterVars>>

\* plt.savefig raises (the path cannot be opened, or the write fails part of
\* the way): the exception leaves the function at that statement.
SaveFigRaises ==
    /\ pc = "savefig"
    /\ \E left \in {"absent", "partial"} : output_file' = left
    /\ meme_error' = [kind |-> "OSError", name |-> "", shape |-> <<>>,
                      expected |-> <<>>]
    /\ pc' = "raised"
    /\ UNCHANGED <<images, img_height, img_width, i, fig, open_figures,
                   panels>>
    /\ UNCHANGED <<maskVars, letterVars>>

\* plt.close() closes the current figure.
Close ==
    /\ pc = "close"
    /\ open_figures' = open_figures \ {fig}
    /\ pc' = "returned"
    /\ UNCHANGED <<images, img_height, img_width, i, fig, panels,
                   output_file, meme_error>>
    /\ UNCHANGED <<maskVars, letterVars>>

MemeNext ==
    \/ Unpack
    \/ ValidatePass
    \/ ValidateRaise
    \/ CreateFigure
    \/ DrawPanel
    \/ FigureBorder
    \/ SaveFig
    \/ SaveFigRaises
    \/ Close

\* ------------------------------------------- step4_create_block_letter.py

\* 8-bit grey of PIL's 'L' mode: the canvas colour, the ink, the divisor.
White == 255
Black == 0
Scale == 255

\* font_size_ratio (its default) and the 15% increase, in hundredths.
FontSizeRatio == 95
Increase == 115

Systems == {"Darwin", "Windows", "Linux"}

FontPaths(sys) ==
    IF sys = "Darwin"
        THEN <<"/System/Library/Fonts/Helvetica.ttc",
               "/System/Library/Fonts/Supplemental/Arial Bold.ttf",
               "/Library/Fonts/Arial Bold.ttf",
               "/System/Library/Fonts/HelveticaNeue.ttc">>
    ELSE IF sys = "Windows"
        THEN <<"C:/Windows/Fonts/arialbd.ttf",
               "C:/Windows/Fonts/calibrib.ttf",
               "C:/Windows/Fonts/impact.ttf">>
    ELSE <<"/usr/share/fonts/truetype/dejavu/DejaVuSans-Bold.ttf",
           "/usr/share/fonts/truetype/liberation/LiberationSans-Bold.ttf",
           "/usr/share/fonts/truetype/noto/NotoSans-Bold.ttf">>

NamedFont == "arial.ttf"
BitmapFont == "load_default"

\* font_path.endswith('.ttc')
EndsWithTtc(path) ==
    path \in {"/System/Library/Fonts/Helvetica.ttc",
              "/System/Library/Fonts/HelveticaNeue.ttc"}

Range(seq) == {seq[n] : n \in DOMAIN seq}

\* ImageFont.truetype: the font loads, or OSError is raised.
TrueType(path, size, index) ==
    IF path \in available THEN "loaded" ELSE "OSError"

\* except (OSError, IOError)
Caught == {"OSError", "IOError"}

\* The loop position after a font has loaded: break leaves the loop.
NoBreak(pos, last) == pos + 1
Break(pos, last) == last + 1

\* The size Image.new is given: (width, height).
CanvasSizeSwapped(h, w) == <<h, w>>
CanvasSize(h, w) == <<w, h>>

\* Image.new('L', size, color)
ImageNew(size, color) ==
    [size |-> size, px |-> [p \in 1..(size[1] * size[2]) |-> color]]

\* int(min_dimension * font_size_ratio * 1.15)
FontSize(h, w) ==
    LET min_dimension == IF h < w THEN h ELSE w
    IN  (min_dimension * FontSizeRatio * Increase) \div 10000

\* The grey levels a pixel of the drawn glyph is sampled at: full ink, an
\* anti-aliased edge, no ink.
Shades == {Black, (Black + White) \div 2, White}

\* draw.text(..., fill=0): ink only darkens a pixel, by a font-dependent amount.
Rendered(im) ==
    {[im EXCEPT !.px = d] :
        d \in {e \in [DOMAIN im.px -> Shades] :
                  \A p \in DOMAIN im.px : e[p] <= im.px[p]}}

\* A float32 quotient, as the fraction num / den.
Normalize(v) == [num |-> v, den |-> Scale]

\* np.array(img, dtype=np.float32) / 255.0: rows are the image's height.
AsArray(im) ==
    [shape |-> <<im.size[2], im.size[1]>>,
     data |-> [p \in DOMAIN im.px |-> Normalize(im.px[p])]]

LetterInit ==
    /\ \E s \in Shapes : height = s[1] /\ width = s[2]
    /\ stroke_width \in 0..MaxStroke
    /\ system \in Systems
    /\ available \in SUBSET (Range(FontPaths(system)) \cup {NamedFont})
    /\ native_stroke \in BOOLEAN
    /\ img = NoImage
    /\ font_size = 0
    /\ font_paths = <<>>
    /\ k = 0
    /\ tried = <<>>
    /\ font = "None"
    /\ img_array = NoArray
    /\ lpc = "new"
    \* create_masked_stipple is not called
    /\ heap = <<>>
    /\ stipple_img = 0
    /\ mask_img = 0
    /\ threshold = 0
    /\ masked_stipple = 0
    /\ outcome = "none"
    /\ error = <<>>
    /\ pre = <<>>
    /\ prev = NoCall
    \* create_statistics_meme is not called
    /\ images = <<>>
    /\ img_height = 0
    /\ img_width = 0
    /\ i = 0
    /\ fig = 0
    /\ open_figures = {}
    /\ panels = 0
    /\ output_file = "absent"
    /\ meme_error = NoError
    /\ pc = "idle"

\* img = Image.new('L', (width, height), 255); draw = ImageDraw.Draw(img)
NewImage ==
    /\ lpc = "new"
    /\ img' = ImageNew(CanvasSize(height, width), White)
    /\ font_size' = FontSize(height, width)
    /\ lpc' = "paths"
    /\ UNCHANGED <<height, width, stroke_width, system, available,
                   native_stroke, font_paths, k, tried, font, img_array>>
    /\ UNCHANGED <<maskVars, memeVars>>

\* font = None; font_paths by platform.system()
SelectPaths ==
    /\ lpc = "paths"
    /\ font' = "None"
    /\ font_paths' = FontPaths(system)
    /\ k' = 1
    /\ lpc' = "load"
    /\ UNCHANGED <<height, width, stroke_width, system, available,
                   native_stroke, img, font_size, tried, img_array>>
    /\ UNCHANGED <<maskVars, memeVars>>

\* One pass of "for font_path in font_paths".
TryFont ==
    /\ lpc = "load"
    /\ k <= Len(font_paths)
    /\ LET font_path == font_paths[k]
           loaded == IF EndsWithTtc(font_path)
                         THEN TrueType(font_path, font_size, 0)
                         ELSE TrueType(font_path, font_size, -1)
       IN  /\ tried' = Append(tried, font_path)
           /\ IF loaded = "loaded"
                  THEN /\ font' = font_path
                       /\ k' = Break(k, Len(font_paths))
                       /\ lpc' = lpc
                  ELSE IF loaded \in Caught
                      THEN /\ k' = k + 1
                           /\ UNCHANGED <<font, lpc>>
                      ELSE /\ lpc' = "raised"
                           /\ UNCHANGED <<font, k>>
    /\ UNCHANGED <<height, width, stroke_width, system, available,
                   native_stroke, img, font_size, font_paths, img_array>>
    /\ UNCHANGED <<maskVars, memeVars>>

\* The loop is over and a font was loaded: "if font is None" is false.
FontLoaded ==
    /\ lpc = "load"
    /\ k > Len(font_paths)
    /\ font # "None"
    /\ lpc' = "draw"
    /\ UNCHANGED <<height, width, stroke_width, system, available,
                   native_stroke, img, font_size, font_paths, k, tried, font,
                   img_array>>
    /\ UNCHANGED <<maskVars, memeVars>>

\* font is None: ImageFont.truetype(font="arial.ttf", size=font_size) loads.
LoadNamedFont ==
    /\ lpc = "load"
    /\ k > Len(font_paths)
    /\ font = "None"
    /\ TrueType(NamedFont, font_size, -1) = "loaded"
    /\ tried' = Append(tried, NamedFont)
    /\ font' = NamedFont
    /\ lpc' = "draw"
    /\ UNCHANGED <<height, width, stroke_width, system, available,
                   native_stroke, img, font_size, font_paths, k, img_array>>
    /\ UNCHANGED <<maskVars, memeVars>>

\* font is None and arial.ttf raises OSError: ImageFont.load_default().
LoadDefaultFont ==
    /\ lpc = "load"
    /\ k > Len(font_paths)
    /\ font = "None"
    /\ TrueType(NamedFont, font_size, -1) \in Caught
    /\ tried' = tried \o <<NamedFont, BitmapFont>>
    /\ font' = BitmapFont
    /\ lpc' = "draw"
    /\ UNCHANGED <<height, width, stroke_width, system, available,
                   native_stroke, img, font_size, font_paths, k, img_array>>
    /\ UNCHANGED <<maskVars, memeVars>>

\* stroke_width == 0: draw.text((x, y), letter, fill=0, font=font)
DrawPlain ==
    /\ lpc = "draw"
    /\ font # "None"
    /\ stroke_width = 0
    /\ img' \in Rendered(img)
    /\ lpc' = "convert"
    /\ UNCHANGED <<height, width, stroke_width, system, available,
                   native_stroke, font_size, font_paths, k, tried, font,
                   img_array>>
    /\ UNCHANGED <<maskVars, memeVars>>

\* stroke_width > 0 and draw.text accepts stroke_width.
DrawStroke ==
    /\ lpc = "draw"
    /\ font # "None"
    /\ stroke_width > 0
    /\ native_stroke
    /\ img' \in Rendered(img)
    /\ lpc' = "convert"
    /\ UNCHANGED <<height, width, stroke_width, system, available,
                   native_stroke, font_size, font_paths, k, tried, font,
                   img_array>>
    /\ UNCHANGED <<maskVars, memeVars>>

\* stroke_width > 0 and draw.text raises TypeError: the letter is stamped at
\* every offset of the disc, then once more on top.
DrawStamped ==
    /\ lpc = "draw"
    /\ font # "None"
    /\ stroke_width > 0
    /\ ~native_stroke
    /\ \E stamped \in Rendered(img) : img' \in Rendered(stamped)
    /\ lpc' = "convert"
    /\ UNCHANGED <<height, width, stroke_width, system, available,
                   native_stroke, font_size, font_paths, k, tried, font,
                   img_array>>
    /\ UNCHANGED <<maskVars, memeVars>>

\* img_array = np.array(img, dtype=np.float32) / 255.0; return img_array
Convert ==
    /\ lpc = "convert"
    /\ img_array' = AsArray(img)
    /\ lpc' = "returned"
    /\ UNCHANGED <<height, width, stroke_width, system, available,
                   native_stroke, img, font_size, font_paths, k, tried, font>>
    /\ UNCHANGED <<maskVars, memeVars>>

LetterNext ==
    \/ NewImage
    \/ SelectPaths
    \/ TryFont
    \/ FontLoaded
    \/ LoadNamedFont
    \/ LoadDefaultFont
    \/ DrawPlain
    \/ DrawStroke
    \/ DrawStamped
    \/ Convert

\* ---------------------------------------------------------- specifications

SpecMask == MaskInit /\ [][MaskNext]_vars

SpecMeme == MemeInit /\ [][MemeNext]_vars

SpecLetter == LetterInit /\ [][LetterNext]_vars

\* ------------------------------------------------------------------ claims

\* The last call of create_masked_stipple has ended and its result is as it
\* was returned (the caller has not written to it).
Ended == outcome \in {"returned", "ValueError"}

\* C1: for same-shaped S and M and every threshold t the call returns an
\* array of S's shape whose pixel p is 1.0 where M[p] < t and S[p] where
\* M[p] >= t, so a pixel whose mask value is exactly t is kept.
C1_MaskedPixels ==
    /\ (Ended /\ pre[stipple_img].shape = pre[mask_img].shape)
           => outcome = "returned"
    /\ outcome = "returned" =>
           LET S == pre[stipple_img]
               M == pre[mask_img]
               R == heap[masked_stipple]
           IN  /\ R.shape = S.shape
               /\ DOMAIN R.data = DOMAIN S.data
               /\ \A p \in DOMAIN S.data :
                      R.data[p] = IF M.data[p] < threshold
                                      THEN One ELSE S.data[p]

\* A call returned with one pixel erased to white and one dark pixel kept
\* whose mask value is exactly the threshold.
C1_Witness ==
    /\ outcome = "returned"
    /\ \E p, q \in DOMAIN pre[stipple_img].data :
           /\ pre[mask_img].data[p] < threshold
           /\ pre[stipple_img].data[p] = 0
           /\ heap[masked_stipple].data[p] = One
           /\ pre[mask_img].data[q] = threshold
           /\ pre[stipple_img].data[q] = 0
           /\ heap[masked_stipple].data[q] = 0

\* C2: a call whose arguments differ in shape ends in a ValueError carrying
\* both shapes and returns nothing; no copy was made and every array is as
\* it was on entry.
C2_ShapeMismatch ==
    /\ (Ended /\ pre[stipple_img].shape # pre[mask_img].shape)
           => outcome = "ValueError"
    /\ outcome = "ValueError" =>
           /\ pre[stipple_img].shape # pre[mask_img].shape
           /\ error = <<pre[stipple_img].shape, pre[mask_img].shape>>
           /\ masked_stipple = 0
           /\ heap = pre

\* A call with a 1x2 stipple image and a 2x1 mask (the same number of
\* pixels) has raised.
C2_Witness ==
    /\ outcome = "ValueError"
    /\ error = <<<<1, 2>>, <<2, 1>>>>

\* The images whose shape differs from the first image's.
Mismatched == {n \in DOMAIN images : images[n].shape # images[1].shape}

FirstMismatched == CHOOSE n \in Mismatched : \A m \in Mismatched : n <= m

\* C3: when the four images do not share one shape, create_statistics_meme
\* ends in a ValueError naming the first image, in argument order, whose
\* shape differs from original_img's, with that shape and the expected one;
\* no figure was created and output_path was not written.
C3_FirstOffender ==
    Mismatched # {} =>
        /\ pc \in {"unpack", "validate", "raised"}
        /\ pc = "raised" \/ ENABLED MemeNext
        /\ fig = 0
        /\ open_figures = {}
        /\ output_file = "absent"
        /\ pc = "raised" =>
               meme_error = [kind |-> "ValueError",
                             name |-> images[FirstMismatched].name,
                             shape |-> images[FirstMismatched].shape,
                             expected |-> images[1].shape]

\* The call has raised for block_letter_img although masked_stipple_img
\* differs too.
C3_Witness ==
    /\ pc = "raised"
    /\ Mismatched = {3, 4}
    /\ meme_error.name = "block_letter_img"

\* Image n is the one (Side, Side + 1) image among three (Side, Side) images.
OddOneOut(n) ==
    /\ images # <<>>
    /\ images[n].shape = <<Side, Side + 1>>
    /\ \A m \in DOMAIN images \ {n} : images[m].shape = <<Side, Side>>

\* C4 as stated: wherever the (50,51) image stands among three (50,50)
\* images, the error raised identifies the (50,51) image.
C4_AsStated ==
    \A n \in DOMAIN Names :
        (OddOneOut(n) /\ pc = "raised") =>
            /\ meme_error.name = Names[n]
            /\ meme_error.shape = <<Side, Side + 1>>

\* C4, amended: the call raises ValueError wherever the (50,51) image
\* stands; the error identifies the (50,51) image when it is the second,
\* third or fourth argument, and when it is original_img the error names
\* stipple_img with shape (50,50) against the expected shape (50,51).
C4_OddOneOut ==
    \A n \in DOMAIN Names :
        OddOneOut(n) =>
            /\ pc \in {"unpack", "validate", "raised"}
            /\ pc = "raised" \/ ENABLED MemeNext
            /\ pc = "raised" =>
                   meme_error =
                       IF n = 1
                           THEN [kind |-> "ValueError", name |-> Names[2],
                                 shape |-> <<Side, Side>>,
                                 expected |-> <<Side, Side + 1>>]
                           ELSE [kind |-> "ValueError", name |-> Names[n],
                                 shape |-> <<Side, Side + 1>>,
                                 expected |-> <<Side, Side>>]

\* The call has raised with the (50,51) image as original_img.
C4_Witness ==
    /\ OddOneOut(1)
    /\ pc = "raised"
    /\ meme_error.name = "stipple_img"

\* C5: when create_statistics_meme has returned or raised, no figure it
\* created is still open.
C5_FigureReleased ==
    pc \in {"returned", "raised"} => fig \notin open_figures

\* C6: applying create_masked_stipple to its own result with the same mask
\* and threshold returns an array equal to that result, pixel for pixel.
C6_Idempotent ==
    (/\ outcome = "returned"
     /\ prev.outcome = "returned"
     /\ stipple_img = prev.masked_stipple
     /\ mask_img = prev.mask_img
     /\ threshold = prev.threshold)
        => heap[masked_stipple] = heap[stipple_img]

\* The second application has returned, and the first one had erased a
\* black stipple.
C6_Witness ==
    /\ outcome = "returned"
    /\ prev.outcome = "returned"
    /\ stipple_img = prev.masked_stipple
    /\ prev.stipple_img # prev.mask_img
    /\ \E p \in DOMAIN heap[stipple_img].data :
           /\ heap[prev.stipple_img].data[p] = 0
           /\ heap[stipple_img].data[p] = One

\* C7: after any call, returning or raising, and after a later write to the
\* result, every array that existed on entry (stipple_img and mask_img
\* among them) holds the values it held on entry, and the array returned is
\* a new one.
C7_InputsUnchanged ==
    outcome # "none" =>
        /\ \A r \in DOMAIN pre : heap[r] = pre[r]
        /\ outcome \in {"returned", "written"} =>
               /\ masked_stipple \notin DOMAIN pre
               /\ masked_stipple # stipple_img

\* The caller has written to the result of a call that erased a pixel, and
\* the result now differs from stipple_img in a pixel the call had kept.
C7_Witness ==
    /\ outcome = "written"
    /\ \E p, q \in DOMAIN heap[stipple_img].data :
           /\ pre[mask_img].data[p] < threshold
           /\ heap[stipple_img].data[p] # One
           /\ pre[mask_img].data[q] >= threshold
           /\ heap[masked_stipple].data[q] # heap[stipple_img].data[q]

\* C8: with threshold 0 and no negative mask value the result equals the
\* stipple image at every pixel.
C8_ThresholdZero ==
    (/\ outcome = "returned"
     /\ threshold = 0
     /\ \A p \in DOMAIN pre[mask_img].data : pre[mask_img].data[p] >= 0)
        => heap[masked_stipple] = pre[stipple_img]

\* A call with threshold 0 returned a black stipple under a mask pixel of 0.
C8_Witness ==
    /\ outcome = "returned"
    /\ threshold = 0
    /\ \A p \in DOMAIN pre[mask_img].data : pre[mask_img].data[p] >= 0
    /\ \E p \in DOMAIN pre[mask_img].data :
           /\ pre[mask_img].data[p] = 0
           /\ heap[masked_stipple].data[p] = 0

\* The positions of the platform's candidates that load.
Loadable == {n \in DOMAIN FontPaths(system) : FontPaths(system)[n] \in available}

FirstLoadable == CHOOSE n \in Loadable : \A m \in Loadable : n <= m

\* C9: whatever fonts load, create_block_letter_s does not raise and goes on
\* to return; the font drawn with is the first platform candidate that
\* loads, no later candidate having been tried, else arial.ttf, else the
\* built-in bitmap font.
C9_FontFallback ==
    /\ lpc # "raised"
    /\ lpc = "returned" \/ ENABLED LetterNext
    /\ lpc \in {"draw", "convert", "returned"} =>
           IF Loadable # {}
               THEN /\ font = FontPaths(system)[FirstLoadable]
                    /\ tried = SubSeq(FontPaths(system), 1, FirstLoadable)
           ELSE IF NamedFont \in available
               THEN /\ font = NamedFont
                    /\ tried = FontPaths(system) \o <<NamedFont>>
           ELSE /\ font = BitmapFont
                /\ tried = FontPaths(system) \o <<NamedFont, BitmapFont>>

\* The first candidate did not load, the second and the third do, and the
\* letter was drawn with the second.
C9_Witness ==
    /\ lpc = "returned"
    /\ Loadable = {2, 3}
    /\ font = FontPaths(system)[2]

\* C10: the array returned has shape (height, width) and its pixel p is the
\* 8-bit pixel p of the image divided by 255, which lies in [0, 1], is 0.0
\* for black and 1.0 for white.
C10_ShapeAndRange ==
    lpc = "returned" =>
        /\ img_array.shape = <<height, width>>
        /\ DOMAIN img_array.data = 1..(height * width)
        /\ \A p \in DOMAIN img_array.data :
               LET x == img_array.data[p]
               IN  /\ img.px[p] \in 0..255
                   /\ x.den = 255
                   /\ x.num = img.px[p]
                   /\ 0 <= x.num /\ x.num <= x.den
                   /\ img.px[p] = Black => x.num = 0
                   /\ img.px[p] = White => x.num = x.den

\* A canvas higher than wide was returned with a black and a white pixel.
C10_Witness ==
    /\ lpc = "returned"
    /\ height > width
    /\ \E p, q \in DOMAIN img_array.data :
           /\ img_array.data[p].num = 0
           /\ img_array.data[q].num = img_array.data[q].den

====
